---- MODULE Spec2Model ----
(***************************************************************************)
(* The YieldCalculator component of unhappyben/yield-arbitrage, in its two *)
(* revisions: src/components/YieldCalculator.tsx ("tsx") and               *)
(* src/unnamed/part_000 ("part000").                                       *)
(*                                                                         *)
(* State: the React state of the component, the position of the one-time   *)
(* loadData effect, the state of every request it issues, the local        *)
(* logoMap of loadTokenLogos.  Actions: the mount effect, the settling of  *)
(* each request (with the synchronous continuation of loadData that the    *)
(* settlement resumes), and the four onChange handlers.                    *)
(*                                                                         *)
(* JavaScript Numbers are modelled as binary floating-point values with a  *)
(* Precision-bit significand, rounded to nearest, ties to even, after      *)
(* every operation, with NaN, signed zero and signed Infinity.  The        *)
(* exponent is not bounded: the payloads and amounts of the model are far  *)
(* from the overflow and underflow thresholds of a double.                 *)
(***************************************************************************)
EXTENDS Integers, Sequences, FiniteSets, TLC

\* Bits of the significand of a Number (53 in a double).
Precision == 6

\* The largest number of lending markets in a fetched markets index.
MaxMarkets == 2

\* The largest number of entries in a fetched strategy breakdown.
MaxGoatEntries == 2

-----------------------------------------------------------------------------
(* JavaScript Number *)

RECURSIVE Pow(_, _)
Pow(b, n) == IF n = 0 THEN 1 ELSE b * Pow(b, n - 1)

NaN == [k |-> "nan", s |-> 1, m |-> 0, e |-> 0]

Inf(sign) == [k |-> "inf", s |-> sign, m |-> 0, e |-> 0]

Zero(sign) == [k |-> "fin", s |-> sign, m |-> 0, e |-> 0]

\* significands of non-zero Numbers lie in [MinSignificand, Radix)
Radix == Pow(2, Precision)

MinSignificand == Pow(2, Precision - 1)

\* n/d * 2^e with n/d brought into [MinSignificand, Radix)
RECURSIVE Scale(_, _, _)
Scale(n, d, e) ==
    IF n >= d * Radix THEN Scale(n, 2 * d, e + 1)
    ELSE IF n < d * MinSignificand THEN Scale(2 * n, d, e - 1)
    ELSE <<n, d, e>>

\* The Number nearest to sign * (n/d) * 2^e, ties to even (n >= 0, d > 0).
Round(sign, n, d, e) ==
    IF n = 0 THEN Zero(sign)
    ELSE LET t  == Scale(n, d, e)
             q  == t[1] \div t[2]
             r  == t[1] % t[2]
             up == (2 * r > t[2]) \/ (2 * r = t[2] /\ q % 2 = 1)
             m1 == IF up THEN q + 1 ELSE q
         IN  IF m1 = Radix
             THEN [k |-> "fin", s |-> sign, m |-> MinSignificand, e |-> t[3] + 1]
             ELSE [k |-> "fin", s |-> sign, m |-> m1, e |-> t[3]]

\* The Number a decimal literal n * 10^(-places) denotes (JSON number, literal).
Dec(n, places) ==
    Round(IF n < 0 THEN -1 ELSE 1, IF n < 0 THEN -n ELSE n, Pow(10, places), 0)

isNaN(x) == x.k = "nan"

IsZero(x) == x.k = "fin" /\ x.m = 0

\* x > 0
GtZero(x) == x.k # "nan" /\ x.s = 1 /\ ~IsZero(x)

\* x <= 0
LeZero(x) == x.k # "nan" /\ (x.s = -1 \/ IsZero(x))

\* magnitude order of two finite non-zero Numbers
MagLess(a, b) == a.e < b.e \/ (a.e = b.e /\ a.m < b.m)

\* a < b
Less(a, b) ==
    IF isNaN(a) \/ isNaN(b) THEN FALSE
    ELSE IF IsZero(a) /\ IsZero(b) THEN FALSE
    ELSE IF a.s # b.s THEN a.s = -1 /\ ~(IsZero(a) /\ IsZero(b))
    ELSE IF a.k = "inf" \/ b.k = "inf"
         THEN IF a.k = b.k THEN FALSE
              ELSE IF a.s = 1 THEN b.k = "inf" ELSE a.k = "inf"
    ELSE IF IsZero(a) THEN b.s = 1
    ELSE IF IsZero(b) THEN a.s = -1
    ELSE IF a.s = 1 THEN MagLess(a, b) ELSE MagLess(b, a)

\* a === b
NumEq(a, b) ==
    /\ ~isNaN(a) /\ ~isNaN(b)
    /\ \/ IsZero(a) /\ IsZero(b)
       \/ a = b

\* a * b
Mul(a, b) ==
    IF isNaN(a) \/ isNaN(b) THEN NaN
    ELSE IF a.k = "inf" \/ b.k = "inf"
         THEN IF IsZero(a) \/ IsZero(b) THEN NaN ELSE Inf(a.s * b.s)
    ELSE Round(a.s * b.s, a.m * b.m, 1, a.e + b.e)

\* a / b
Div(a, b) ==
    IF isNaN(a) \/ isNaN(b) THEN NaN
    ELSE IF a.k = "inf" THEN (IF b.k = "inf" THEN NaN ELSE Inf(a.s * b.s))
    ELSE IF b.k = "inf" THEN Zero(a.s * b.s)
    ELSE IF IsZero(b) THEN (IF IsZero(a) THEN NaN ELSE Inf(a.s * b.s))
    ELSE Round(a.s * b.s, a.m, b.m, a.e - b.e)

Neg(a) == IF isNaN(a) THEN NaN ELSE [a EXCEPT !.s = -a.s]

\* a + b
Add(a, b) ==
    IF isNaN(a) \/ isNaN(b) THEN NaN
    ELSE IF a.k = "inf"
         THEN IF b.k = "inf" /\ b.s # a.s THEN NaN ELSE a
    ELSE IF b.k = "inf" THEN b
    ELSE IF IsZero(a) /\ IsZero(b)
         THEN Zero(IF a.s = -1 /\ b.s = -1 THEN -1 ELSE 1)
    ELSE IF IsZero(a) THEN b
    ELSE IF IsZero(b) THEN a
    ELSE IF a.e - b.e >= Precision + 2 THEN a
    ELSE IF b.e - a.e >= Precision + 2 THEN b
    ELSE LET e0 == IF a.e < b.e THEN a.e ELSE b.e
             x  == a.s * a.m * Pow(2, a.e - e0) + b.s * b.m * Pow(2, b.e - e0)
         IN  IF x = 0 THEN Zero(1)
             ELSE Round(IF x < 0 THEN -1 ELSE 1, IF x < 0 THEN -x ELSE x, 1, e0)

\* a - b
Sub(a, b) == Add(a, Neg(b))

-----------------------------------------------------------------------------
(* Strings are sequences of one-character strings; parseFloat *)

DigitChars == <<"0", "1", "2", "3", "4", "5", "6", "7", "8", "9">>

IsDigit(c) == \E i \in 1..10 : DigitChars[i] = c

DigitVal(c) == (CHOOSE i \in 1..10 : DigitChars[i] = c) - 1

\* leading white space removed
RECURSIVE TrimStart(_)
TrimStart(str) ==
    IF str # <<>> /\ Head(str) = " " THEN TrimStart(Tail(str)) ELSE str

\* the number of leading decimal digits of str
RECURSIVE DigitPrefixLen(_)
DigitPrefixLen(str) ==
    IF str # <<>> /\ IsDigit(Head(str)) THEN 1 + DigitPrefixLen(Tail(str)) ELSE 0

\* the value of a sequence of decimal digits
RECURSIVE DigitsValue(_)
DigitsValue(ds) ==
    IF ds = <<>> THEN 0
    ELSE 10 * DigitsValue(SubSeq(ds, 1, Len(ds) - 1)) + DigitVal(ds[Len(ds)])

StartsWith(str, pre) ==
    Len(str) >= Len(pre) /\ SubSeq(str, 1, Len(pre)) = pre

InfinityLiteral == <<"I", "n", "f", "i", "n", "i", "t", "y">>

Drop(str, n) == SubSeq(str, n + 1, Len(str))

\* parseFloat(str): the longest prefix of the trimmed string that is a
\* StrDecimalLiteral, correctly rounded; NaN when there is none.
parseFloat(str) ==
    LET t      == TrimStart(str)
        signed == t # <<>> /\ Head(t) \in {"+", "-"}
        sgn    == IF t # <<>> /\ Head(t) = "-" THEN -1 ELSE 1
        u      == IF signed THEN Tail(t) ELSE t
        ni     == DigitPrefixLen(u)
        aInt   == Drop(u, ni)
        hasDot == aInt # <<>> /\ Head(aInt) = "."
        fSrc   == IF hasDot THEN Tail(aInt) ELSE <<>>
        nf     == DigitPrefixLen(fSrc)
        aFrac  == IF hasDot THEN Drop(fSrc, nf) ELSE aInt
        hasE   == aFrac # <<>> /\ Head(aFrac) \in {"e", "E"}
        eSrc   == IF hasE THEN Tail(aFrac) ELSE <<>>
        eSgnd  == eSrc # <<>> /\ Head(eSrc) \in {"+", "-"}
        eNeg   == eSrc # <<>> /\ Head(eSrc) = "-"
        eDig   == IF eSgnd THEN Tail(eSrc) ELSE eSrc
        ne     == DigitPrefixLen(eDig)
        eVal   == (IF eNeg THEN -1 ELSE 1) * DigitsValue(SubSeq(eDig, 1, ne))
        mant   == DigitsValue(SubSeq(u, 1, ni) \o SubSeq(fSrc, 1, nf))
        k      == eVal - nf
    IN  IF StartsWith(u, InfinityLiteral) THEN Inf(sgn)
        ELSE IF ni + nf = 0 THEN NaN
        ELSE IF k >= 0 THEN Round(sgn, mant * Pow(10, k), 1, 0)
        ELSE Round(sgn, mant, Pow(10, -k), 0)

-----------------------------------------------------------------------------
(* Values and payloads *)

Null == [nil |-> "null"]

Undefined == [nil |-> "undefined"]

\* !v for a value that is null, undefined or an object
Falsy(v) == v = Null \/ v = Undefined

\* !str for a string
EmptyString(str) == str = <<>>

LOGO_BASE_URL == "https://raw.githubusercontent.com/unhappyben/token-logos/main/logos"

PlaceholderLogo == <<"/placeholder.png">>

\* A document on which the normalizing code throws a TypeError (JSON null).
Malformed == [wellFormed |-> FALSE, entries |-> <<>>]

\* A document of the expected shape, with its entries in key order.
Document(entries) == [wellFormed |-> TRUE, entries |-> entries]

\* Raw lending markets, as the markets index lists them.
MarketPool ==
    << [asset |-> [symbol |-> "USDC", name |-> "USD Coin", address |-> "0xaf88"],
        maxLTV |-> Dec(80, 0), utilization |-> Dec(5, 1), borrowAPY |-> Dec(5, 0)],
       [asset |-> [symbol |-> "WETH", name |-> "Wrapped Ether", address |-> "0x82af"],
        maxLTV |-> Dec(70, 0), utilization |-> Dec(25, 2), borrowAPY |-> Dec(15, 0)],
       [asset |-> [symbol |-> "ARB", name |-> "Arbitrum", address |-> "0x912c"],
        maxLTV |-> Dec(100, 0), utilization |-> Dec(1, 1), borrowAPY |-> Dec(3, 1)] >>

\* Raw entries of the strategy breakdown, keyed by address; name may be
\* absent or empty ("").
GoatPool ==
    << [address |-> <<"0", "x", "U", "S", "D", "C">>, name |-> "Goat USDC",
        totalApy |-> Dec(7, 2)],
       [address |-> <<"0", "x", "c", "r", "v">>, name |-> "",
        totalApy |-> Dec(12, 2)],
       [address |-> <<"0", "x", "o", "l", "d">>, name |-> "Retired",
        totalApy |-> Dec(0, 0)] >>

Min(a, b) == IF a < b THEN a ELSE b

\* What the markets endpoint can answer: data.pageProps.markets, or a
\* document without it.
SiloPayloads ==
    {Document(SubSeq(MarketPool, 1, n)) : n \in 0..Min(MaxMarkets, Len(MarketPool))}
        \cup {Malformed}

\* What the strategy endpoint can answer.
GoatPayloads ==
    {Document(SubSeq(GoatPool, 1, n)) : n \in 0..Min(MaxGoatEntries, Len(GoatPool))}
        \cup {Malformed}

\* What the price endpoint can answer: a document with coins, or JSON null.
PricePayloads == {Document(<<"coins">>), Malformed}

\* The texts a user can put into an amount input.
TypedTexts ==
    { <<>>,
      <<"a", "b", "c">>,
      <<"0">>,
      <<"-", "5">>,
      <<"9", "0">>,
      <<"2", ".", "5", "e", "2">>,
      <<"7", "x">>,
      InfinityLiteral }

Revisions == {"tsx", "part000"}

Endpoints == {"silo", "goat", "prices"}

-----------------------------------------------------------------------------
(* Normalization *)

\* processSiloData on a well-formed markets document
processSiloData(data) ==
    [i \in 1..Len(data) |->
        [symbol      |-> data[i].asset.symbol,
         name        |-> data[i].asset.name,
         address     |-> data[i].asset.address,
         maxLtv      |-> data[i].maxLTV,
         utilization |-> Mul(data[i].utilization, Dec(100, 0)),
         borrowApy   |-> data[i].borrowAPY]]

\* str.includes(sub)
Includes(str, sub) ==
    \E i \in 1..(Len(str) - Len(sub) + 1) : SubSeq(str, i, i + Len(sub) - 1) = sub

\* .filter(([_, data]) => data.totalApy > 0)
RECURSIVE FilterPositiveApy(_)
FilterPositiveApy(entries) ==
    IF entries = <<>> THEN <<>>
    ELSE IF GtZero(Head(entries).totalApy)
         THEN <<Head(entries)>> \o FilterPositiveApy(Tail(entries))
         ELSE FilterPositiveApy(Tail(entries))

\* one element of .map(([address, data]) => ({...}))
GoatStrategy(entry) ==
    [id         |-> entry.address,
     name       |-> IF entry.name = "" THEN "Unknown Strategy" ELSE entry.name,
     apy        |-> Mul(entry.totalApy, Dec(100, 0)),
     token      |-> IF Includes(entry.address, <<"U", "S", "D", "C">>)
                    THEN "USDC.e" ELSE "crvUSD",
     minDeposit |-> Dec(0, 0)]

\* goatStrategies of a well-formed breakdown
goatStrategies(data) ==
    LET kept == FilterPositiveApy(data)
    IN  [i \in 1..Len(kept) |-> GoatStrategy(kept[i])]

\* symbol.toLowerCase() of the symbols the model uses
ToLowerCase(symbol) ==
    CASE symbol = "USDC" -> "usdc"
      [] symbol = "WETH" -> "weth"
      [] symbol = "ARB"  -> "arb"
      [] OTHER -> symbol

\* `${LOGO_BASE_URL}/${token.symbol.toLowerCase()}.png`
LogoUrl(symbol) == <<LOGO_BASE_URL, "/", ToLowerCase(symbol), ".png">>

-----------------------------------------------------------------------------
(* State *)

VARIABLES
    revision,          \* which revision of the component runs
    selectedAsset,     \* useState<TokenInfo | null>(null)
    depositAmount,     \* useState('')
    borrowAmount,      \* useState('')
    selectedStrategy,  \* useState<Strategy | null>(null)
    loading,           \* useState(true)
    assets,            \* useState<TokenInfo[]>([])
    strategies,        \* useState<Strategy[]>([])
    prices,            \* useState({}) of the tsx revision
    logos,             \* useState({}) of the tsx revision
    pc,                \* where loadData stands
    loadError,         \* the catch block of loadData ran (console.error)
    req,               \* each endpoint's request: idle, pending, resolved, rejected
    requests,          \* how many times each endpoint was requested
    siloData,          \* the resolved value of the markets request
    goatData,          \* the resolved value of the strategy request
    probes,            \* the logo probes issued so far, in order, with their outcome
    logoMap            \* the logoMap local of loadTokenLogos

vars == <<revision, selectedAsset, depositAmount, borrowAmount, selectedStrategy,
          loading, assets, strategies, prices, logos, pc, loadError, req, requests,
          siloData, goatData, probes, logoMap>>

userVars == <<selectedAsset, depositAmount, borrowAmount, selectedStrategy>>

EmptyObject == <<>>

Init ==
    /\ revision \in Revisions
    /\ selectedAsset = Null
    /\ depositAmount = <<>>
    /\ borrowAmount = <<>>
    /\ selectedStrategy = Null
    /\ loading = TRUE
    /\ assets = <<>>
    /\ strategies = <<>>
    /\ prices = EmptyObject
    /\ logos = EmptyObject
    /\ pc = "mount"
    /\ loadError = FALSE
    /\ req = [ep \in Endpoints |-> "idle"]
    /\ requests = [ep \in Endpoints |-> 0]
    /\ siloData = Undefined
    /\ goatData = Undefined
    /\ probes = <<>>
    /\ logoMap = EmptyObject

-----------------------------------------------------------------------------
(* The one-time load: loadData and loadTokenLogos *)

\* Mutant of Catch: the catch block logs and forgets setLoading(false).
Catch_KeepsLoading ==
    /\ loadError' = TRUE
    /\ loading' = loading
    /\ pc' = "done"

\* catch (error) { console.error(...); setLoading(false); }
Catch ==
    /\ loadError' = TRUE
    /\ loading' = FALSE
    /\ pc' = "done"

\* Mutant of Mount: the price request is issued with the other two.
Mount_IssuesPrices ==
    /\ pc = "mount"
    /\ req' = [ep \in Endpoints |-> "pending"]
    /\ requests' = [ep \in Endpoints |-> requests[ep] + 1]
    /\ pc' = "awaitAll"
    /\ UNCHANGED <<revision, userVars, loading, loadError, assets, strategies, prices,
                   logos, siloData, goatData, probes, logoMap>>

\* useEffect(() => { loadData(); }, []) up to the first await: both requests
\* of the Promise.all are issued.
Mount ==
    /\ pc = "mount"
    /\ req' = [req EXCEPT !["silo"] = "pending", !["goat"] = "pending"]
    /\ requests' = [requests EXCEPT !["silo"] = @ + 1, !["goat"] = @ + 1]
    /\ pc' = "awaitAll"
    /\ UNCHANGED <<revision, userVars, loading, loadError, assets, strategies, prices, logos,
                   siloData, goatData, probes, logoMap>>

\* loadData from the resolution of Promise.all to its next await: r is the
\* state of the requests at that moment, sd the markets document.
AfterPromiseAll(r, sd) ==
    IF ~sd.wellFormed
    THEN /\ Catch
         /\ req' = r
         /\ UNCHANGED <<assets, requests>>
    ELSE /\ assets' = processSiloData(sd.entries)
         /\ req' = [r EXCEPT !["prices"] = "pending"]
         /\ requests' = [requests EXCEPT !["prices"] = @ + 1]
         /\ pc' = "awaitPrices"
         /\ UNCHANGED <<loading, loadError>>

\* A member of the Promise.all settles: ep is "silo" or "goat", other the
\* other member.  A rejection rejects the Promise.all at once; the last of
\* two resolutions resumes loadData.  siloData and goatData are the values
\* the Promise.all holds for its continuation; once it has rejected, a
\* value that arrives late is dropped.
MemberSettles(ep, other, outcome, payload) ==
    /\ req[ep] = "pending"
    /\ LET r  == [req EXCEPT ![ep] = outcome]
           sd == IF ep = "silo" THEN payload ELSE siloData
           keep == pc = "awaitAll" /\ outcome = "resolved"
       IN  /\ siloData' = IF ep = "silo" /\ keep THEN payload ELSE siloData
           /\ goatData' = IF ep = "goat" /\ keep THEN payload ELSE goatData
           /\ IF pc # "awaitAll"
              THEN /\ req' = r
                   /\ UNCHANGED <<pc, loading, loadError, assets, requests>>
              ELSE IF outcome = "rejected"
              THEN /\ Catch
                   /\ req' = r
                   /\ UNCHANGED <<assets, requests>>
              ELSE IF req[other] = "resolved"
              THEN AfterPromiseAll(r, sd)
              ELSE /\ req' = r
                   /\ UNCHANGED <<pc, loading, loadError, assets, requests>>
    /\ UNCHANGED <<revision, userVars, strategies, prices, logos, probes, logoMap>>

\* fetch(markets).then(r => r.json()) settles
SiloSettles ==
    \/ \E payload \in SiloPayloads : MemberSettles("silo", "goat", "resolved", payload)
    \/ MemberSettles("silo", "goat", "rejected", Malformed)

\* fetch(breakdown).then(r => r.json()) settles
GoatSettles ==
    \/ \E payload \in GoatPayloads : MemberSettles("goat", "silo", "resolved", payload)
    \/ MemberSettles("goat", "silo", "rejected", Malformed)

\* The end of loadData's try block, after loadTokenLogos returned map.
Finish(map) ==
    IF revision = "tsx"
    THEN /\ logos' = map
         /\ loading' = FALSE
         /\ pc' = "done"
         /\ UNCHANGED <<strategies, loadError>>
    ELSE IF ~goatData.wellFormed
    THEN /\ Catch
         /\ UNCHANGED <<strategies, logos>>
    ELSE /\ strategies' = goatStrategies(goatData.entries)
         /\ loading' = FALSE
         /\ pc' = "done"
         /\ UNCHANGED <<logos, loadError>>

\* loadTokenLogos(processedAssets) up to its first await
StartLogos ==
    /\ logoMap' = EmptyObject
    /\ IF assets = <<>>
       THEN /\ probes' = <<>>
            /\ Finish(EmptyObject)
       ELSE /\ probes' = <<"pending">>
            /\ pc' = "awaitLogo"
            /\ UNCHANGED <<loading, loadError, strategies, logos>>

\* fetch(prices).then(r => r.json()) settles
PricesSettles ==
    /\ req["prices"] = "pending"
    /\ \/ /\ req' = [req EXCEPT !["prices"] = "rejected"]
          /\ Catch
          /\ UNCHANGED <<prices, strategies, logos, probes, logoMap>>
       \/ \E payload \in PricePayloads :
            /\ req' = [req EXCEPT !["prices"] = "resolved"]
            /\ IF revision = "tsx"
               THEN IF ~payload.wellFormed
                    THEN /\ Catch
                         /\ UNCHANGED <<prices, strategies, logos, probes, logoMap>>
                    ELSE /\ prices' = payload.entries
                         /\ StartLogos
               ELSE /\ UNCHANGED prices
                    /\ StartLogos
    /\ UNCHANGED <<revision, userVars, assets, requests, siloData, goatData>>

\* logoMap[token.symbol] = ... after a probe settled with result
SetLogo(map, symbol, result) ==
    [s \in DOMAIN map \cup {symbol} |->
        IF s = symbol
        THEN IF result = "ok" THEN LogoUrl(symbol) ELSE PlaceholderLogo
        ELSE map[s]]

\* Mutant of LogoSettles: the loop body has no try/catch, so a rejected
\* probe rejects loadTokenLogos and loadData's catch block runs.
LogoSettles_RejectionAborts ==
    /\ pc = "awaitLogo"
    /\ probes # <<>>
    /\ probes[Len(probes)] = "pending"
    /\ \E result \in {"ok", "notOk", "rejected"} :
         LET i   == Len(probes)
             map == SetLogo(logoMap, assets[i].symbol, result)
             settled == [probes EXCEPT ![i] = result]
         IN  IF result = "rejected"
             THEN /\ probes' = settled
                  /\ Catch
                  /\ UNCHANGED <<logoMap, strategies, logos>>
             ELSE /\ logoMap' = map
                  /\ IF i < Len(assets)
                     THEN /\ probes' = Append(settled, "pending")
                          /\ UNCHANGED <<pc, loading, loadError, strategies, logos>>
                     ELSE /\ probes' = settled
                          /\ Finish(map)
    /\ UNCHANGED <<revision, userVars, assets, prices, req, requests, siloData, goatData>>

\* The pending probe settles: response.ok, response not ok, or the fetch
\* rejects; the loop goes on with the next token or loadTokenLogos returns.
LogoSettles ==
    /\ pc = "awaitLogo"
    /\ probes # <<>>
    /\ probes[Len(probes)] = "pending"
    /\ \E result \in {"ok", "notOk", "rejected"} :
         LET i   == Len(probes)
             map == SetLogo(logoMap, assets[i].symbol, result)
             settled == [probes EXCEPT ![i] = result]
         IN  /\ logoMap' = map
             /\ IF i < Len(assets)
                THEN /\ probes' = Append(settled, "pending")
                     /\ UNCHANGED <<pc, loading, loadError, strategies, logos>>
                ELSE /\ probes' = settled
                     /\ Finish(map)
    /\ UNCHANGED <<revision, userVars, assets, prices, req, requests, siloData, goatData>>

-----------------------------------------------------------------------------
(* The onChange handlers; the inputs exist only once loading is false *)

\* str is a valid floating-point number: -? digits (. digits)? or
\* -? . digits, then an optional exponent, and nothing else.
IsValidFloatingPointNumber(str) ==
    LET u      == IF str # <<>> /\ Head(str) = "-" THEN Tail(str) ELSE str
        ni     == DigitPrefixLen(u)
        aInt   == Drop(u, ni)
        hasDot == aInt # <<>> /\ Head(aInt) = "."
        nf     == IF hasDot THEN DigitPrefixLen(Tail(aInt)) ELSE 0
        aFrac  == IF hasDot THEN Drop(Tail(aInt), nf) ELSE aInt
        hasE   == aFrac # <<>> /\ Head(aFrac) \in {"e", "E"}
        eSrc   == IF hasE THEN Tail(aFrac) ELSE <<>>
        eDig   == IF eSrc # <<>> /\ Head(eSrc) \in {"+", "-"} THEN Tail(eSrc) ELSE eSrc
        ne     == DigitPrefixLen(eDig)
    IN  /\ ni + nf > 0
        /\ hasDot => nf > 0
        /\ IF hasE THEN ne > 0 /\ Drop(eDig, ne) = <<>> ELSE aFrac = <<>>

\* e.target.value of an <Input type="number">: the typed text when it is a
\* valid floating-point number, the empty string otherwise.
NumberInputValue(text) ==
    IF IsValidFloatingPointNumber(text) THEN text ELSE <<>>

\* the values an amount input can hand to its onChange handler
AmountValues == {NumberInputValue(text) : text \in TypedTexts}

\* String(idx), the value of an option
IndexString(idx) == <<DigitChars[idx + 1]>>

\* the values of the options of a select over list
OptionValues(list) == {<<>>} \cup {IndexString(i) : i \in 0..(Len(list) - 1)}

\* list[parseInt(value)]
ElementAtParseInt(list, value) ==
    LET t == TrimStart(value)
        n == DigitPrefixLen(t)
        i == DigitsValue(SubSeq(t, 1, n))
    IN  IF n = 0 THEN Undefined
        ELSE IF i < Len(list) THEN list[i + 1]
        ELSE Undefined

\* list.indexOf(element) for an element of list
IndexOf(list, element) == (CHOOSE i \in 1..Len(list) : list[i] = element) - 1

\* value={selected ? list.indexOf(selected) : ''}: the option shown as chosen
CurrentValue(list, selected) ==
    IF Falsy(selected) THEN <<>> ELSE IndexString(IndexOf(list, selected))

\* Mutant of SelectAsset: choosing an asset also resets the strategy.
SelectAsset_ResetsStrategy ==
    /\ ~loading
    /\ \E value \in OptionValues(assets) \ {CurrentValue(assets, selectedAsset)} :
         selectedAsset' = ElementAtParseInt(assets, value)
    /\ selectedStrategy' = Null
    /\ UNCHANGED <<revision, depositAmount, borrowAmount, loading,
                   assets, strategies, prices, logos, pc, loadError, req, requests,
                   siloData, goatData, probes, logoMap>>

\* onChange={(e) => setSelectedAsset(assets[parseInt(e.target.value)])}:
\* the user chooses another option than the one shown as chosen
SelectAsset ==
    /\ ~loading
    /\ \E value \in OptionValues(assets) \ {CurrentValue(assets, selectedAsset)} :
         selectedAsset' = ElementAtParseInt(assets, value)
    /\ UNCHANGED <<revision, depositAmount, borrowAmount, selectedStrategy, loading,
                   assets, strategies, prices, logos, pc, loadError, req, requests,
                   siloData, goatData, probes, logoMap>>

\* onChange={(e) => setSelectedStrategy(strategies[parseInt(e.target.value)])}
SelectStrategy ==
    /\ ~loading
    /\ \E value \in OptionValues(strategies) \ {CurrentValue(strategies, selectedStrategy)} :
         selectedStrategy' = ElementAtParseInt(strategies, value)
    /\ UNCHANGED <<revision, depositAmount, borrowAmount, selectedAsset, loading,
                   assets, strategies, prices, logos, pc, loadError, req, requests,
                   siloData, goatData, probes, logoMap>>

\* onChange={(e) => setDepositAmount(e.target.value)}
EditDeposit ==
    /\ ~loading
    /\ \E value \in AmountValues : depositAmount' = value
    /\ UNCHANGED <<revision, selectedAsset, borrowAmount, selectedStrategy, loading,
                   assets, strategies, prices, logos, pc, loadError, req, requests,
                   siloData, goatData, probes, logoMap>>

\* onChange={(e) => setBorrowAmount(e.target.value)}
EditBorrow ==
    /\ ~loading
    /\ \E value \in AmountValues : borrowAmount' = value
    /\ UNCHANGED <<revision, selectedAsset, depositAmount, selectedStrategy, loading,
                   assets, strategies, prices, logos, pc, loadError, req, requests,
                   siloData, goatData, probes, logoMap>>

-----------------------------------------------------------------------------
(* What every render derives from the state *)

\* the literals 100, 110, 365, 52 and 12
Hundred == Dec(100, 0)

RiskThreshold == Dec(110, 0)

DaysPerYear == Dec(365, 0)

WeeksPerYear == Dec(52, 0)

MonthsPerYear == Dec(12, 0)

\* Mutant of HealthFactorOf: the sign check is strict (< 0 for <= 0).
HealthFactorOf_StrictSign(asset, depositStr, borrowStr) ==
    IF Falsy(asset) \/ EmptyString(depositStr) \/ EmptyString(borrowStr)
    THEN Zero(1)
    ELSE LET deposit == parseFloat(depositStr)
             borrow  == parseFloat(borrowStr)
         IN  IF isNaN(deposit) \/ isNaN(borrow)
                \/ Less(deposit, Zero(1)) \/ Less(borrow, Zero(1))
             THEN Zero(1)
             ELSE LET maxBorrow == Mul(deposit, Div(asset.maxLtv, Hundred))
                  IN  Mul(Div(maxBorrow, borrow), Hundred)

\* Mutant of HealthFactorOf: only NaN is rejected, not zero or negative.
HealthFactorOf_NoSignCheck(asset, depositStr, borrowStr) ==
    IF Falsy(asset) \/ EmptyString(depositStr) \/ EmptyString(borrowStr)
    THEN Zero(1)
    ELSE LET deposit == parseFloat(depositStr)
             borrow  == parseFloat(borrowStr)
         IN  IF isNaN(deposit) \/ isNaN(borrow)
             THEN Zero(1)
             ELSE LET maxBorrow == Mul(deposit, Div(asset.maxLtv, Hundred))
                  IN  Mul(Div(maxBorrow, borrow), Hundred)

\* Mutant of HealthFactorOf: the result is capped at 100.
HealthFactorOf_Clamped(asset, depositStr, borrowStr) ==
    IF Falsy(asset) \/ EmptyString(depositStr) \/ EmptyString(borrowStr)
    THEN Zero(1)
    ELSE LET deposit == parseFloat(depositStr)
             borrow  == parseFloat(borrowStr)
         IN  IF isNaN(deposit) \/ isNaN(borrow) \/ LeZero(deposit) \/ LeZero(borrow)
             THEN Zero(1)
             ELSE LET maxBorrow == Mul(deposit, Div(asset.maxLtv, Hundred))
                      hf        == Mul(Div(maxBorrow, borrow), Hundred)
                  IN  IF Less(Hundred, hf) THEN Hundred ELSE hf

\* calculateHealthFactor over given state values
HealthFactorOf(asset, depositStr, borrowStr) ==
    IF Falsy(asset) \/ EmptyString(depositStr) \/ EmptyString(borrowStr)
    THEN Zero(1)
    ELSE LET deposit == parseFloat(depositStr)
             borrow  == parseFloat(borrowStr)
         IN  IF isNaN(deposit) \/ isNaN(borrow) \/ LeZero(deposit) \/ LeZero(borrow)
             THEN Zero(1)
             ELSE LET maxBorrow == Mul(deposit, Div(asset.maxLtv, Hundred))
                  IN  Mul(Div(maxBorrow, borrow), Hundred)

\* Mutant of YieldsOf: the strategy yield is earned on the deposit.
YieldsOf_YieldOnDeposit(asset, strategy, depositStr, borrowStr) ==
    IF Falsy(asset) \/ Falsy(strategy) \/ EmptyString(depositStr) \/ EmptyString(borrowStr)
    THEN Null
    ELSE LET deposit == parseFloat(depositStr)
             borrow  == parseFloat(borrowStr)
         IN  IF isNaN(deposit) \/ isNaN(borrow) \/ LeZero(deposit) \/ LeZero(borrow)
             THEN Null
             ELSE LET borrowCost == Mul(borrow, Div(asset.borrowApy, Hundred))
                      yield_     == Mul(deposit, Div(strategy.apy, Hundred))
                      netYield   == Sub(yield_, borrowCost)
                  IN  [daily   |-> Div(netYield, DaysPerYear),
                       weekly  |-> Div(netYield, WeeksPerYear),
                       monthly |-> Div(netYield, MonthsPerYear),
                       annual  |-> netYield,
                       apy     |-> Mul(Div(netYield, deposit), Hundred)]

\* calculateYields over given state values
YieldsOf(asset, strategy, depositStr, borrowStr) ==
    IF Falsy(asset) \/ Falsy(strategy) \/ EmptyString(depositStr) \/ EmptyString(borrowStr)
    THEN Null
    ELSE LET deposit == parseFloat(depositStr)
             borrow  == parseFloat(borrowStr)
         IN  IF isNaN(deposit) \/ isNaN(borrow) \/ LeZero(deposit) \/ LeZero(borrow)
             THEN Null
             ELSE LET borrowCost == Mul(borrow, Div(asset.borrowApy, Hundred))
                      yield_     == Mul(borrow, Div(strategy.apy, Hundred))
                      netYield   == Sub(yield_, borrowCost)
                  IN  [daily   |-> Div(netYield, DaysPerYear),
                       weekly  |-> Div(netYield, WeeksPerYear),
                       monthly |-> Div(netYield, MonthsPerYear),
                       annual  |-> netYield,
                       apy     |-> Mul(Div(netYield, deposit), Hundred)]

\* const healthFactor = calculateHealthFactor()
calculateHealthFactor == HealthFactorOf(selectedAsset, depositAmount, borrowAmount)

\* const yields = calculateYields()
calculateYields == YieldsOf(selectedAsset, selectedStrategy, depositAmount, borrowAmount)

\* {healthFactor > 0 && (...)} below the loading guard
HealthFactorShown == ~loading /\ GtZero(calculateHealthFactor)

\* {healthFactor < 110 && (...)} inside the health factor section
RiskFlagShown == HealthFactorShown /\ Less(calculateHealthFactor, RiskThreshold)

\* {yields && (...)} below the loading guard
ResultsShown == ~loading /\ ~Falsy(calculateYields)

-----------------------------------------------------------------------------
(* Specifications *)

Next ==
    \/ Mount
    \/ SiloSettles
    \/ GoatSettles
    \/ PricesSettles
    \/ LogoSettles
    \/ SelectAsset
    \/ SelectStrategy
    \/ EditDeposit
    \/ EditBorrow

Spec == Init /\ [][Next]_vars

\* Every issued request eventually settles.
Fairness ==
    /\ WF_vars(Mount)
    /\ WF_vars(SiloSettles)
    /\ WF_vars(GoatSettles)
    /\ WF_vars(PricesSettles)
    /\ WF_vars(LogoSettles)

LiveSpec == Init /\ [][Next]_vars /\ Fairness

-----------------------------------------------------------------------------
(* Vocabulary of the properties *)

\* the Number an amount string stands for in the calculations
AmountOf(str) == parseFloat(str)

\* str parses to a finite Number strictly greater than zero
PositiveAmount(str) ==
    /\ ~EmptyString(str)
    /\ AmountOf(str).k = "fin"
    /\ GtZero(AmountOf(str))

\* str is empty, non-numeric, zero or negative
UnusableAmount(str) ==
    \/ EmptyString(str)
    \/ isNaN(AmountOf(str))
    \/ LeZero(AmountOf(str))

AssetSelected == ~Falsy(selectedAsset)

StrategySelected == ~Falsy(selectedStrategy)

\* exactly 0
ExactlyZero(x) == x = Zero(1)

-----------------------------------------------------------------------------
(* C1 *)

\* C1, as stated: a derived result (a non-zero health factor, a non-null
\* yields result, either section displayed) is present only if an asset and
\* a strategy are selected and both amounts parse to finite numbers > 0.
\* Stated of the loads that completed with strategies to choose from, where
\* nothing but the user's choice decides whether a strategy is selected.
C1_AsStated ==
    (/\ ~loadError
     /\ strategies # <<>>
     /\ \/ ~ExactlyZero(calculateHealthFactor)
        \/ ~Falsy(calculateYields)
        \/ HealthFactorShown
        \/ ResultsShown)
        => /\ AssetSelected
           /\ StrategySelected
           /\ PositiveAmount(depositAmount)
           /\ PositiveAmount(borrowAmount)

\* C1, amended: the health factor is non-zero (or displayed) only if an
\* asset is selected and both amounts parse to finite numbers > 0; the
\* yields result is non-null (or displayed) only if, in addition, a strategy
\* is selected.  Nothing is displayed while loading.
C1_DerivedOnlyWhenComputable ==
    /\ (~ExactlyZero(calculateHealthFactor) \/ HealthFactorShown)
          => /\ AssetSelected
             /\ PositiveAmount(depositAmount)
             /\ PositiveAmount(borrowAmount)
    /\ (~Falsy(calculateYields) \/ ResultsShown)
          => /\ AssetSelected
             /\ StrategySelected
             /\ PositiveAmount(depositAmount)
             /\ PositiveAmount(borrowAmount)
    /\ loading => ~HealthFactorShown /\ ~ResultsShown

\* C1 witness: both sections are displayed.
C1_Witness == HealthFactorShown /\ ResultsShown

-----------------------------------------------------------------------------
(* C2 *)

\* C2, as stated: once the load has failed, loading is cleared, both lists
\* are empty, and the health factor is zero and the yields result null
\* whatever the user does.
C2_AsStated ==
    loadError =>
        /\ ~loading
        /\ assets = <<>>
        /\ strategies = <<>>
        /\ ExactlyZero(calculateHealthFactor)
        /\ Falsy(calculateYields)

-----------------------------------------------------------------------------
(* C3 *)

\* C3, as stated: a load in which every fetch succeeded ends with one
\* normalized asset per fetched market and with the normalized strategies
\* of the fetched breakdown.
C3_AsStated ==
    (pc = "done" /\ ~loadError) =>
        /\ Len(assets) = Len(siloData.entries)
        /\ assets = processSiloData(siloData.entries)
        /\ strategies = goatStrategies(goatData.entries)

-----------------------------------------------------------------------------
(* C4 *)

\* the typed texts that are empty, non-numeric, zero or negative
UnusableTexts == {text \in TypedTexts : UnusableAmount(text)}

\* C4: calculateHealthFactor is exactly 0 whenever no asset is selected or
\* an amount is empty, non-numeric, zero or negative; and so it is for
\* every text, sanitized by the input or not, put in place of an amount.
C4_ZeroWhenNotApplicable ==
    /\ (~AssetSelected \/ UnusableAmount(depositAmount) \/ UnusableAmount(borrowAmount))
          => ExactlyZero(calculateHealthFactor)
    /\ \A text \in UnusableTexts :
          /\ ExactlyZero(HealthFactorOf(selectedAsset, text, borrowAmount))
          /\ ExactlyZero(HealthFactorOf(selectedAsset, depositAmount, text))

\* C4 witness: the placeholder option was chosen again after an asset (the
\* selection is undefined, not the initial null) with both amounts usable,
\* and the health factor is 0.
C4_Witness ==
    /\ selectedAsset = Undefined
    /\ PositiveAmount(depositAmount)
    /\ PositiveAmount(borrowAmount)
    /\ ExactlyZero(calculateHealthFactor)

-----------------------------------------------------------------------------
(* C5 *)

YieldsDefined ==
    /\ AssetSelected
    /\ StrategySelected
    /\ ~UnusableAmount(depositAmount)
    /\ ~UnusableAmount(borrowAmount)

\* C5, as stated: null unless asset, strategy and both amounts are usable;
\* otherwise annual is exactly borrow * (strategyApy - borrowApy) / 100.
C5_AsStated ==
    /\ ~YieldsDefined => calculateYields = Null
    /\ YieldsDefined =>
         /\ ~Falsy(calculateYields)
         /\ calculateYields.annual =
               Div(Mul(AmountOf(borrowAmount),
                       Sub(selectedStrategy.apy, selectedAsset.borrowApy)),
                   Hundred)

\* C5, amended: null unless asset, strategy and both amounts are usable;
\* otherwise annual is borrow * (strategyApy / 100) - borrow * (borrowApy / 100)
\* as floating-point arithmetic evaluates it, also when zero or negative.
C5_AnnualIsYieldMinusCost ==
    /\ ~YieldsDefined => calculateYields = Null
    /\ YieldsDefined =>
         /\ ~Falsy(calculateYields)
         /\ calculateYields.annual =
               Sub(Mul(AmountOf(borrowAmount), Div(selectedStrategy.apy, Hundred)),
                   Mul(AmountOf(borrowAmount), Div(selectedAsset.borrowApy, Hundred)))

\* C5 witness: a result with a negative annual yield.
C5_Witness ==
    /\ ~Falsy(calculateYields)
    /\ Less(calculateYields.annual, Zero(1))

-----------------------------------------------------------------------------
(* C6 *)

\* the position of a finite Number x > 0 among the Numbers, in units in the
\* last place
UlpIndex(x) == x.e * MinSignificand + (x.m - MinSignificand)

\* a and b, finite and > 0, are at most n Numbers apart
WithinUlps(a, b, n) ==
    /\ a.k = "fin" /\ b.k = "fin" /\ GtZero(a) /\ GtZero(b)
    /\ UlpIndex(a) - UlpIndex(b) <= n
    /\ UlpIndex(b) - UlpIndex(a) <= n

\* a <= b
AtMost(a, b) == Less(a, b) \/ NumEq(a, b)

HealthFactorDefined ==
    /\ AssetSelected
    /\ PositiveAmount(depositAmount)
    /\ PositiveAmount(borrowAmount)
    /\ GtZero(selectedAsset.maxLtv)
    /\ AtMost(selectedAsset.maxLtv, Hundred)

\* C6: with an asset of maxLtv in (0,100] and deposit, borrow > 0, the
\* health factor is deposit * maxLtv / borrow up to the rounding of the six
\* operations involved (at most 6 units in the last place), unclamped; it
\* does not increase when borrow grows and does not decrease when deposit
\* or maxLtv grows.
C6_HealthFactorFormula ==
    HealthFactorDefined =>
        /\ WithinUlps(calculateHealthFactor,
                      Div(Mul(AmountOf(depositAmount), selectedAsset.maxLtv),
                          AmountOf(borrowAmount)),
                      6)
        /\ \A text \in AmountValues :
              (PositiveAmount(text) /\ Less(AmountOf(borrowAmount), AmountOf(text)))
                 => AtMost(HealthFactorOf(selectedAsset, depositAmount, text),
                           calculateHealthFactor)
        /\ \A text \in AmountValues :
              (PositiveAmount(text) /\ Less(AmountOf(depositAmount), AmountOf(text)))
                 => AtMost(calculateHealthFactor,
                           HealthFactorOf(selectedAsset, text, borrowAmount))
        /\ \A i \in 1..Len(assets) :
              (Less(selectedAsset.maxLtv, assets[i].maxLtv)
                  /\ AtMost(assets[i].maxLtv, Hundred))
                 => AtMost(calculateHealthFactor,
                           HealthFactorOf(assets[i], depositAmount, borrowAmount))

\* C6 witness: a health factor above 150, with a larger borrow and a larger
\* maxLtv available to compare with.
C6_Witness ==
    /\ HealthFactorDefined
    /\ Less(Dec(150, 0), calculateHealthFactor)
    /\ \E text \in AmountValues :
          PositiveAmount(text) /\ Less(AmountOf(borrowAmount), AmountOf(text))
    /\ \E i \in 1..Len(assets) : Less(selectedAsset.maxLtv, assets[i].maxLtv)

-----------------------------------------------------------------------------
(* C7 *)

Issued(ep) == req[ep] # "idle"

\* the probes run one at a time: only the last one issued can be pending
ProbesSequential ==
    /\ Len(probes) <= Len(assets)
    /\ \A i \in 1..Len(probes) : probes[i] = "pending" => i = Len(probes)
    /\ probes # <<>> => \A ep \in Endpoints : req[ep] = "resolved"

\* C7, as stated: the three fetches are issued together, none waiting for
\* another to complete, and the probes follow, one at a time.
C7_AsStated ==
    /\ (\E ep \in Endpoints : Issued(ep)) => (\A ep \in Endpoints : Issued(ep))
    /\ ProbesSequential

\* C7, amended: the market-list fetch and the strategy-list fetch are issued
\* together; the price-list fetch is issued only after both have resolved;
\* the probes begin only after the price fetch resolved, one at a time.
C7_FetchOrder ==
    /\ Issued("silo") <=> Issued("goat")
    /\ Issued("prices") => req["silo"] = "resolved" /\ req["goat"] = "resolved"
    /\ ProbesSequential

\* C7 witness: the second probe is in flight, the first has settled.
C7_Witness ==
    /\ Len(probes) = 2
    /\ probes[1] # "pending"
    /\ probes[2] = "pending"

-----------------------------------------------------------------------------
(* C8 *)

ProbeFailed(i) == probes[i] \in {"notOk", "rejected"}

\* the last settled probe of the token with this symbol
LastSettledProbe(symbol) ==
    CHOOSE i \in 1..Len(probes) :
        /\ assets[i].symbol = symbol
        /\ probes[i] # "pending"
        /\ \A j \in (i + 1)..Len(probes) :
              assets[j].symbol = symbol => probes[j] = "pending"

SettledSymbols ==
    {assets[i].symbol : i \in {j \in 1..Len(probes) : probes[j] # "pending"}}

\* C8: a failed probe maps its token, and no other, to the placeholder; the
\* remaining probes still run and the load completes as it does when every
\* probe succeeds: logos stored (tsx) or strategies populated (part000),
\* loading cleared, the catch block not entered on account of the probe.
C8_ProbeFailureIsLocal ==
    /\ DOMAIN logoMap = SettledSymbols
    /\ \A symbol \in SettledSymbols :
          logoMap[symbol] = IF ProbeFailed(LastSettledProbe(symbol))
                            THEN PlaceholderLogo
                            ELSE LogoUrl(symbol)
    /\ (\E i \in 1..Len(probes) : ProbeFailed(i)) =>
          /\ pc \in {"awaitLogo", "done"}
          /\ pc = "awaitLogo" => loading /\ ~loadError
          /\ pc = "done" =>
                /\ Len(probes) = Len(assets)
                /\ \A i \in 1..Len(probes) : probes[i] # "pending"
                /\ ~loading
                /\ revision = "tsx" => ~loadError /\ logos = logoMap
                /\ revision = "part000" =>
                      /\ loadError <=> ~goatData.wellFormed
                      /\ goatData.wellFormed =>
                            strategies = goatStrategies(goatData.entries)

\* C8 witness: the first probe was rejected, the second ran and succeeded,
\* and the load completed with strategies to choose from.
C8_Witness ==
    /\ pc = "done"
    /\ ~loadError
    /\ Len(probes) = 2
    /\ probes[1] = "rejected"
    /\ probes[2] = "ok"
    /\ strategies # <<>>

-----------------------------------------------------------------------------
(* C9 *)

Changed(v) == v' # v

\* how many of the four pieces of user state a step changes
UserChanges ==
    (IF Changed(selectedAsset) THEN 1 ELSE 0)
  + (IF Changed(selectedStrategy) THEN 1 ELSE 0)
  + (IF Changed(depositAmount) THEN 1 ELSE 0)
  + (IF Changed(borrowAmount) THEN 1 ELSE 0)

\* C9: once loading is false no step changes the asset list or the strategy
\* list, and a step that changes the selected asset, the selected strategy,
\* the deposit or the borrow string changes only that one and nothing of
\* the load.
C9_ListsReadOnly ==
    [][ /\ ~loading => assets' = assets /\ strategies' = strategies
        /\ UserChanges <= 1
        /\ UserChanges = 1 =>
              UNCHANGED <<revision, loading, assets, strategies, prices, logos, pc,
                          loadError, req, requests, siloData, goatData, probes,
                          logoMap>> ]_vars

\* C9 witness: after a completed load with both lists populated, all four
\* pieces of user state have been set.
C9_Witness ==
    /\ ~loading
    /\ assets # <<>>
    /\ strategies # <<>>
    /\ AssetSelected
    /\ StrategySelected
    /\ ~EmptyString(depositAmount)
    /\ ~EmptyString(borrowAmount)

-----------------------------------------------------------------------------
(* C10 *)

\* C10: if every issued request eventually settles, loading eventually
\* becomes false; once false it stays false; no endpoint is requested more
\* than once; while loading is true the user state keeps its initial values.
C10_LoadingClears ==
    /\ <>(~loading)
    /\ [][~loading => ~loading']_vars
    /\ [](\A ep \in Endpoints : requests[ep] <= 1)
    /\ [](loading =>
             /\ selectedAsset = Null
             /\ selectedStrategy = Null
             /\ depositAmount = <<>>
             /\ borrowAmount = <<>>)

\* C10 witness: loading was cleared by the catch block after the price
\* request, the third and last endpoint, was rejected.
C10_Witness ==
    /\ ~loading
    /\ loadError
    /\ req["prices"] = "rejected"
    /\ \A ep \in Endpoints : requests[ep] = 1

====
